---- MODULE Spec2Model ----
(***************************************************************************)
(* A model of the investing-agents server: the agent facade                *)
(* (InvestmentAgent), the executor adapter (InvestmentAgentExecutor), the  *)
(* process entry point (__main__.main) and the manual test client.         *)
(*                                                                         *)
(* Query text is a sequence of one-character strings, so that lower(),     *)
(* strip() and the substring tests of the classifier are computed.         *)
(* Response text is a TLA+ string; the four canned templates are           *)
(* abbreviated to their title lines.                                       *)
(***************************************************************************)
EXTENDS Integers, Sequences, FiniteSets, TLC

(***************************************************************************)
(* Bounds of the model.                                                    *)
(***************************************************************************)
\* parts per message under Spec
MaxParts == 3
\* parts per message under SpecClassify
MaxClassifyParts == 2
\* concurrent requests under SpecConcurrent
NumRequests == 2
\* lines the operator types into the interactive test client
MaxLines == 3

(***************************************************************************)
(* Python string operations on character sequences.                        *)
(***************************************************************************)
UpperCase ==
  <<"A","B","C","D","E","F","G","H","I","J","K","L","M",
    "N","O","P","Q","R","S","T","U","V","W","X","Y","Z">>

LowerCase ==
  <<"a","b","c","d","e","f","g","h","i","j","k","l","m",
    "n","o","p","q","r","s","t","u","v","w","x","y","z">>

\* str.lower() on one character
LowerChar(c) ==
  IF \E i \in 1..26 : UpperCase[i] = c
  THEN LowerCase[CHOOSE i \in 1..26 : UpperCase[i] = c]
  ELSE c

\* str.lower()
Lower(s) == [i \in 1..Len(s) |-> LowerChar(s[i])]

\* the characters str.strip() removes
Whitespace == {" ", "\t", "\n"}

\* str.strip(): drop leading and trailing whitespace
Strip(s) ==
  LET keep == {i \in 1..Len(s) : s[i] \notin Whitespace}
  IN  IF keep = {} THEN <<>>
      ELSE LET lo == CHOOSE i \in keep : \A j \in keep : i <= j
               hi == CHOOSE i \in keep : \A j \in keep : j <= i
           IN  SubSeq(s, lo, hi)

\* Python's `w in s` for strings
Contains(s, w) ==
  \E i \in 0..(Len(s) - Len(w)) : SubSeq(s, i + 1, i + Len(w)) = w

(***************************************************************************)
(* Python values.                                                          *)
(***************************************************************************)
\* an Optional[str]: None, or a string
None == [some |-> FALSE, val |-> ""]

Str(t) == [some |-> TRUE, val |-> t]

\* Python truthiness of an Optional[str]
Truthy(o) == o.some /\ o.val # ""

\* a message part: Part(root=TextPart(text=...)), or a part whose root
\* carries no text attribute (FilePart, DataPart)
TextPart(t) == [kind |-> "text", text |-> t]

OtherPart == [kind |-> "other", text |-> <<>>]

\* context.message is None
NoMessage == [present |-> FALSE, parts |-> <<>>]

Message(ps) == [present |-> TRUE, parts |-> ps]

(***************************************************************************)
(* The agent facade: InvestmentAgent.                                      *)
(***************************************************************************)
NoClient == "None"

GenaiClient == "genai.Client"

\* InvestmentAgent.__init__: the api_key attribute
AgentApiKey(arg, env) == IF Truthy(arg) THEN arg ELSE env

\* InvestmentAgent.__init__: the client attribute
AgentClient(arg, env, genai) ==
  IF genai /\ Truthy(AgentApiKey(arg, env)) THEN GenaiClient ELSE NoClient

DiversificationKeywords ==
  { <<"d","i","v","e","r","s","i","f">>,
    <<"p","o","r","t","f","o","l","i","o">>,
    <<"a","l","l","o","c","a","t">> }

RiskKeywords ==
  { <<"r","i","s","k">>, <<"s","a","f","e">>, <<"c","o","n","s","e","r","v">> }

MarketKeywords ==
  { <<"s","t","o","c","k">>, <<"e","q","u","i","t","y">>,
    <<"s","h","a","r","e">> }

DiversificationTemplate == "Investment Portfolio Diversification Advice: ..."

RiskTemplate == "Risk Management in Investing: ..."

MarketTemplate == "Stock Market Investment Guidance: ..."

WelcomeTemplate == "Welcome to the Investment Strategy Agent! ..."

\* any(word in query_lower for word in words)
AnyWordIn(words, query_lower) == \E word \in words : Contains(query_lower, word)

\* the classifier with its second and third tests in the other order
GetBasicResponseMarketFirst(query) ==
  LET query_lower == Lower(query)
  IN  IF AnyWordIn(DiversificationKeywords, query_lower)
        THEN DiversificationTemplate
      ELSE IF AnyWordIn(MarketKeywords, query_lower)
        THEN MarketTemplate
      ELSE IF AnyWordIn(RiskKeywords, query_lower)
        THEN RiskTemplate
      ELSE WelcomeTemplate

\* InvestmentAgent._get_basic_response
GetBasicResponse(query) ==
  LET query_lower == Lower(query)
  IN  IF AnyWordIn(DiversificationKeywords, query_lower)
        THEN DiversificationTemplate
      ELSE IF AnyWordIn(RiskKeywords, query_lower)
        THEN RiskTemplate
      ELSE IF AnyWordIn(MarketKeywords, query_lower)
        THEN MarketTemplate
      ELSE WelcomeTemplate

\* the f-string prompt of analyze: fixed text around the query
BuildPrompt(query) ==
  << "You are an investment advisor agent. ... User query: ",
     query,
     " Provide a clear, helpful response focused on investment strategy and financial analysis. ..." >>

\* failures the external call can raise: exception class and str(e)
Failures ==
  { [type |-> "ClientError", msg |-> "quota exceeded"],
    [type |-> "ConnectError", msg |-> ""] }

\* response.text of a successful call: prose, empty text, or None when the
\* response holds no text part
ModelTexts == { Str("Consider low-cost index funds."), Str(""), None }

\* a narrower except clause: only the API's own error class is caught
CatchesClientErrorOnly(e) == e.type = "ClientError"

\* `except Exception as e`: every failure of the call is an Exception
Catches(e) == TRUE

\* the string analyze returns from its except clause
ErrorResponse(e) ==
  "Error generating AI response: " \o e.msg
    \o ". Please provide a GOOGLE_API_KEY environment variable."

(***************************************************************************)
(* The executor adapter: InvestmentAgentExecutor.                          *)
(***************************************************************************)
Greeting ==
  <<"H","e","l","l","o",","," ","w","h","a","t"," ","c","a","n"," ",
    "y","o","u"," ","h","e","l","p"," ","m","e"," ","w","i","t","h","?">>

\* hasattr(part, 'root') and hasattr(part.root, 'text') and part.root.text
HasText(part) == part.kind = "text" /\ part.text # <<>>

\* the loop without its separator: user_query += part.root.text
RECURSIVE ConcatPartsNoSeparator(_, _, _)
ConcatPartsNoSeparator(parts, i, acc) ==
  IF i > Len(parts) THEN acc
  ELSE ConcatPartsNoSeparator(parts, i + 1,
         IF HasText(parts[i]) THEN acc \o parts[i].text ELSE acc)

\* the loop of execute: user_query += part.root.text + " "
RECURSIVE ConcatParts(_, _, _)
ConcatParts(parts, i, acc) ==
  IF i > Len(parts) THEN acc
  ELSE ConcatParts(parts, i + 1,
         IF HasText(parts[i]) THEN acc \o parts[i].text \o <<" ">> ELSE acc)

\* execute, up to the call of analyze: the query handed to the facade
ExtractQuery(m) ==
  LET raw == IF m.present /\ m.parts # <<>>
             THEN ConcatParts(m.parts, 1, <<>>) ELSE <<>>
      stripped == Strip(raw)
  IN  IF stripped = <<>> THEN Greeting ELSE stripped

(***************************************************************************)
(* State of the server.                                                    *)
(***************************************************************************)
VARIABLES
  api_key,      \* InvestmentAgent.api_key
  client,       \* InvestmentAgent.client
  pc,           \* per request: where its execute coroutine stands
  message,      \* per request: context.message
  user_query,   \* per request: the local user_query of execute
  calls,        \* per request: the prompts sent to generate_content
  outcome,      \* per request: how the external call ended
  result,       \* per request: what analyze returned
  events,       \* per request: the events enqueued on its event queue
  cancelled     \* the last invocation of cancel and how it ended

serverVars ==
  <<api_key, client, pc, message, user_query, calls, outcome, result,
    events, cancelled>>

(***************************************************************************)
(* State of the process entry point (main) and of the test client.         *)
(***************************************************************************)
VARIABLES
  environ,      \* os.environ as main reads it
  mpc,          \* where main stands
  host,         \* main's local host
  port,         \* main's local port
  server_url,   \* main's local server_url
  card_url,     \* agent_card.url
  bound         \* the address handed to uvicorn.run

mainVars == <<environ, mpc, host, port, server_url, card_url, bound>>

VARIABLES
  argv_query,   \* args.query of the test client
  cpc,          \* where the test client stands
  interactive,  \* whether run_interactive_mode is running
  lines,        \* the lines input() has returned
  sent,         \* the queries passed to test_investment_agent
  failure,      \* the exception the last query raised, if any
  ended_by,     \* what ended the interactive loop
  exit_status   \* the status the process exited with

clientVars ==
  <<argv_query, cpc, interactive, lines, sent, failure, ended_by, exit_status>>

toolVars == <<mainVars, clientVars>>

vars == <<serverVars, mainVars, clientVars>>

\* an Optional[str] whose text is a character sequence
NoText == [some |-> FALSE, val |-> <<>>]

NoEnviron == [HOST |-> None, PORT |-> NoText, SERVER_URL |-> None, GOOGLE_API_KEY |-> None]

\* main has not run
MainIdle ==
  /\ environ = NoEnviron
  /\ mpc = "off"
  /\ host = ""
  /\ port = 0
  /\ server_url = ""
  /\ card_url = ""
  /\ bound = <<"", 0>>

\* the test client has not run
ClientIdle ==
  /\ argv_query = NoText
  /\ cpc = "off"
  /\ interactive = FALSE
  /\ lines = <<>>
  /\ sent = <<>>
  /\ failure = "none"
  /\ ended_by = "none"
  /\ exit_status = -1

Requests == DOMAIN pc

Pending == [kind |-> "pending", type |-> "", msg |-> ""]

NoCancel == [at |-> "", signal |-> "none"]

\* the keys the constructor can be given
ApiKeys == { None, Str(""), Str("AIza-key") }

ServerInit(reqs) ==
  /\ \E arg \in ApiKeys, env \in ApiKeys, genai \in BOOLEAN :
       /\ api_key = AgentApiKey(arg, env)
       /\ client = AgentClient(arg, env, genai)
  /\ pc = [r \in reqs |-> "idle"]
  /\ message = [r \in reqs |-> NoMessage]
  /\ user_query = [r \in reqs |-> <<>>]
  /\ calls = [r \in reqs |-> <<>>]
  /\ outcome = [r \in reqs |-> Pending]
  /\ result = [r \in reqs |-> None]
  /\ events = [r \in reqs |-> <<>>]
  /\ cancelled = NoCancel
  /\ MainIdle
  /\ ClientIdle

\* execute keeping the facade's answer in a field of the shared executor
\* instead of a local
ExecuteSharedResult(r, m) ==
  /\ pc[r] = "idle"
  /\ message' = [message EXCEPT ![r] = m]
  /\ user_query' = [user_query EXCEPT ![r] = ExtractQuery(m)]
  /\ IF client # NoClient
     THEN /\ calls' = [calls EXCEPT ![r] = Append(@, BuildPrompt(ExtractQuery(m)))]
          /\ pc' = [pc EXCEPT ![r] = "calling"]
          /\ UNCHANGED result
     ELSE /\ result' = [x \in DOMAIN pc |-> Str(GetBasicResponse(ExtractQuery(m)))]
          /\ pc' = [pc EXCEPT ![r] = "analyzed"]
          /\ UNCHANGED calls
  /\ UNCHANGED <<api_key, client, outcome, events, cancelled>>
  /\ UNCHANGED toolVars

\* execute, from its entry to the external call (configured) or to the
\* return of analyze (unconfigured)
Execute(r, m) ==
  /\ pc[r] = "idle"
  /\ message' = [message EXCEPT ![r] = m]
  /\ user_query' = [user_query EXCEPT ![r] = ExtractQuery(m)]
  /\ IF client # NoClient
     THEN /\ calls' = [calls EXCEPT ![r] = Append(@, BuildPrompt(ExtractQuery(m)))]
          /\ pc' = [pc EXCEPT ![r] = "calling"]
          /\ UNCHANGED result
     ELSE /\ result' = [result EXCEPT ![r] = Str(GetBasicResponse(ExtractQuery(m)))]
          /\ pc' = [pc EXCEPT ![r] = "analyzed"]
          /\ UNCHANGED calls
  /\ UNCHANGED <<api_key, client, outcome, events, cancelled>>
  /\ UNCHANGED toolVars

\* generate_content returns: analyze returns response.text
ModelReturns(r, t) ==
  /\ pc[r] = "calling"
  /\ outcome' = [outcome EXCEPT ![r] = [kind |-> "returned", type |-> "", msg |-> ""]]
  /\ result' = [result EXCEPT ![r] = t]
  /\ pc' = [pc EXCEPT ![r] = "analyzed"]
  /\ UNCHANGED <<api_key, client, message, user_query, calls, events, cancelled>>
  /\ UNCHANGED toolVars

\* a failed call is sent again instead of being answered
ModelFailsRetry(r, e) ==
  /\ pc[r] = "calling"
  /\ outcome' = [outcome EXCEPT ![r] = [kind |-> "failed", type |-> e.type, msg |-> e.msg]]
  /\ calls' = [calls EXCEPT ![r] = Append(@, BuildPrompt(user_query[r]))]
  /\ UNCHANGED <<api_key, client, pc, message, user_query, result, events, cancelled>>
  /\ UNCHANGED toolVars

\* generate_content raises e: the except clause of analyze
ModelFails(r, e) ==
  /\ pc[r] = "calling"
  /\ outcome' = [outcome EXCEPT ![r] = [kind |-> "failed", type |-> e.type, msg |-> e.msg]]
  /\ IF Catches(e)
     THEN /\ result' = [result EXCEPT ![r] = Str(ErrorResponse(e))]
          /\ pc' = [pc EXCEPT ![r] = "analyzed"]
     ELSE /\ pc' = [pc EXCEPT ![r] = "raised"]
          /\ UNCHANGED result
  /\ UNCHANGED <<api_key, client, message, user_query, calls, events, cancelled>>
  /\ UNCHANGED toolVars

\* new_agent_text_message(result) is library code: given a str it builds the
\* message; given None it either rejects the value (raises) or wraps it
MessageBuilt(res) == IF res.some THEN {TRUE} ELSE {TRUE, FALSE}

\* await event_queue.enqueue_event(new_agent_text_message(result))
Publish(r) ==
  /\ pc[r] = "analyzed"
  /\ \E built \in MessageBuilt(result[r]) :
       IF built
       THEN /\ events' = [events EXCEPT ![r] = Append(@, result[r])]
            /\ pc' = [pc EXCEPT ![r] = "done"]
       ELSE /\ pc' = [pc EXCEPT ![r] = "raised"]
            /\ UNCHANGED events
  /\ UNCHANGED <<api_key, client, message, user_query, calls, outcome, result, cancelled>>
  /\ UNCHANGED toolVars

\* a cancel that returns normally once the request is no longer running
CancelQuietly(r) ==
  /\ cancelled' = [at |-> pc[r],
                   signal |-> IF pc[r] \in {"done", "raised"} THEN "returned" ELSE "raised"]
  /\ UNCHANGED <<api_key, client, pc, message, user_query, calls, outcome, result, events>>
  /\ UNCHANGED toolVars

\* InvestmentAgentExecutor.cancel: raise Exception(...)
Cancel(r) ==
  /\ cancelled' = [at |-> pc[r], signal |-> "raised"]
  /\ UNCHANGED <<api_key, client, pc, message, user_query, calls, outcome, result, events>>
  /\ UNCHANGED toolVars

(***************************************************************************)
(* Inputs.                                                                 *)
(***************************************************************************)
\* sequences over S of length 0..n
SeqsUpTo(S, n) == UNION { [1..k -> S] : k \in 0..n }

PartUniverse ==
  { OtherPart,
    TextPart(<<>>),
    TextPart(<<" ">>),
    TextPart(<<"R","i","s","k">>),
    TextPart(<<"\t","s","h","a","r","e","s"," ">>),
    TextPart(<<"P","o","r","t","f","o","l","i","o">>),
    TextPart(<<"h","i">>) }

Messages == {NoMessage} \cup { Message(ps) : ps \in SeqsUpTo(PartUniverse, MaxParts) }

Init == ServerInit({1})

\* one request through execute; cancel is exercised under SpecConcurrent
Next ==
  \/ \E r \in Requests, m \in Messages : Execute(r, m)
  \/ \E r \in Requests, t \in ModelTexts : ModelReturns(r, t)
  \/ \E r \in Requests, e \in Failures : ModelFails(r, e)
  \/ \E r \in Requests : Publish(r)

Spec == Init /\ [][Next]_vars

(***************************************************************************)
(* Properties of one request (Spec).                                       *)
(***************************************************************************)
ErrorPrefix == "Error generating AI response: "

CredentialHint == ". Please provide a GOOGLE_API_KEY environment variable."

\* C1: when the external model call fails, analyze returns (never raises) a
\* text made of the error prefix, the failure's description and the hint to
\* configure the credential.
C1_FailureBecomesText ==
  \A r \in Requests :
    outcome[r].kind = "failed" =>
      /\ pc[r] \in {"analyzed", "done"}
      /\ result[r] = Str(ErrorPrefix \o outcome[r].msg \o CredentialHint)

\* C1 witness: a "quota exceeded" failure was answered and published as text.
C1_Witness ==
  \E r \in Requests :
    /\ outcome[r] = [kind |-> "failed", type |-> "ClientError", msg |-> "quota exceeded"]
    /\ pc[r] = "done"
    /\ events[r] = << Str(ErrorPrefix \o "quota exceeded" \o CredentialHint) >>

\* C2: every finished execute has published exactly one text event, carrying
\* what the facade returned; no execute publishes more than one.
C2_ExactlyOneEvent ==
  \A r \in Requests :
    /\ Len(events[r]) <= 1
    /\ pc[r] \in {"done", "raised"} =>
         /\ Len(events[r]) = 1
         /\ events[r][1] = result[r]
         /\ result[r].some

\* C6: every value analyze returns is a non-empty text string.
C6_ResponseNonEmpty ==
  \A r \in Requests :
    pc[r] \in {"analyzed", "done", "raised"} =>
      /\ result[r].some
      /\ result[r].val # ""

\* " ".join(ts)
RECURSIVE JoinSpaces(_)
JoinSpaces(ts) ==
  IF ts = <<>> THEN <<>>
  ELSE IF Len(ts) = 1 THEN ts[1]
  ELSE ts[1] \o <<" ">> \o JoinSpaces(Tail(ts))

\* the texts of the parts of m that satisfy keep, in part order
RECURSIVE TextsOf(_, _)
TextsOf(parts, keepEmpty) ==
  IF parts = <<>> THEN <<>>
  ELSE LET p == Head(parts)
           here == IF p.kind = "text" /\ (keepEmpty \/ p.text # <<>>)
                   THEN << p.text >> ELSE <<>>
       IN  here \o TextsOf(Tail(parts), keepEmpty)

\* the joined, trimmed text, or the greeting when that is empty
JoinedOrGreeting(m, keepEmpty) ==
  LET joined == Strip(JoinSpaces(TextsOf(m.parts, keepEmpty)))
  IN  IF joined = <<>> THEN Greeting ELSE joined

\* C7 as stated: the query is the text of every text-carrying part joined
\* by single spaces and trimmed, or the greeting when that is empty.
C7_JoinEveryPart ==
  \A r \in Requests :
    pc[r] # "idle" => user_query[r] = JoinedOrGreeting(message[r], TRUE)

\* C7 amended: the query is the text of every part with non-empty text
\* joined by single spaces and trimmed (a part with empty text adds no
\* separator), or the greeting when that is empty; it is never empty.
C7_JoinNonEmptyParts ==
  \A r \in Requests :
    pc[r] # "idle" =>
      /\ user_query[r] = JoinedOrGreeting(message[r], FALSE)
      /\ user_query[r] # <<>>
      /\ Strip(JoinSpaces(TextsOf(message[r].parts, FALSE))) = <<>>
           => user_query[r] = Greeting

\* C7 witness: a message with an empty text part between two texts was
\* extracted to the two texts one space apart.
C7_Witness ==
  \E r \in Requests :
    /\ pc[r] # "idle"
    /\ message[r].parts =
         << TextPart(<<"R","i","s","k">>), TextPart(<<>>), TextPart(<<"h","i">>) >>
    /\ user_query[r] = <<"R","i","s","k"," ","h","i">>

(***************************************************************************)
(* The classifier on its own (SpecClassify): an unconfigured agent and     *)
(* one request whose text is drawn from a vocabulary holding every keyword *)
(* in some casing, inside longer words, cut short, and split over parts.   *)
(***************************************************************************)
ClassifyTexts ==
  { <<"D","i","v","e","r","s","i","f","y">>,
    <<"P","O","R","T","F","O","L","I","O">>,
    <<"a","l","l","o","c","a","t","i","o","n">>,
    <<"r","i","s","k","y">>,
    <<"u","n","S","A","F","E">>,
    <<"C","o","n","s","e","r","v","a","t","i","v","e">>,
    <<"s","t","o","c","k","s">>,
    <<"E","q","u","i","t","y">>,
    <<"s","h","a","r","e","h","o","l","d","e","r">>,
    <<"w","e","a","t","h","e","r">>,
    <<"d","i","v","e","r","s","i">>,
    <<"r","i","s">>,
    <<"k">> }

ClassifyMessages ==
  { Message(ps) :
      ps \in SeqsUpTo({ TextPart(t) : t \in ClassifyTexts }, MaxClassifyParts) }

InitClassify == ServerInit({1}) /\ client = NoClient

NextClassify ==
  \/ \E r \in Requests, m \in ClassifyMessages : Execute(r, m)
  \/ \E r \in Requests : Publish(r)

SpecClassify == InitClassify /\ [][NextClassify]_vars

\* the keyword groups as the specification lists them, in priority order
C3_Groups ==
  << { <<"d","i","v","e","r","s","i","f">>, <<"p","o","r","t","f","o","l","i","o">>, <<"a","l","l","o","c","a","t">> },
     { <<"r","i","s","k">>, <<"s","a","f","e">>, <<"c","o","n","s","e","r","v">> },
     { <<"s","t","o","c","k">>, <<"e","q","u","i","t","y">>, <<"s","h","a","r","e">> } >>

C3_Templates ==
  << DiversificationTemplate, RiskTemplate, MarketTemplate >>

\* w occurs in q at some position, letter case of q ignored
OccursIgnoringCase(q, w) ==
  \E i \in 1..Len(q) :
    /\ i + Len(w) - 1 <= Len(q)
    /\ \A j \in 1..Len(w) : LowerChar(q[i + j - 1]) = w[j]

GroupMatches(g, q) == \E w \in C3_Groups[g] : OccursIgnoringCase(q, w)

\* C3: the response is the template of the first group, in the order
\* diversification, risk, market, one of whose keywords occurs in the query
\* ignoring case, and the welcome template when no group matches.
C3_FirstMatchingGroupWins ==
  \A r \in Requests :
    (pc[r] # "idle" /\ client = NoClient) =>
      LET q == user_query[r]
      IN  /\ \A g \in 1..3 :
               (GroupMatches(g, q) /\ \A h \in 1..(g - 1) : ~GroupMatches(h, q))
                 => result[r] = Str(C3_Templates[g])
          /\ (\A g \in 1..3 : ~GroupMatches(g, q))
               => result[r] = Str(WelcomeTemplate)
          /\ result[r] \in { Str(DiversificationTemplate), Str(RiskTemplate),
                             Str(MarketTemplate), Str(WelcomeTemplate) }

\* C3 witness: a query with a risk keyword and a market keyword and no
\* diversification keyword got the risk template.
C3_Witness ==
  \E r \in Requests :
    /\ pc[r] = "done"
    /\ user_query[r] = <<"u","n","S","A","F","E"," ","s","t","o","c","k","s">>
    /\ events[r] = << Str(RiskTemplate) >>

(***************************************************************************)
(* Concurrent requests on one executor (SpecConcurrent): the steps of      *)
(* NumRequests execute coroutines and cancel calls interleave freely.      *)
(***************************************************************************)
ConcMessages ==
  { NoMessage,
    Message(<< TextPart(<<"R","i","s","k">>) >>),
    Message(<< TextPart(<<"P","o","r","t","f","o","l","i","o">>), OtherPart, TextPart(<<"s","h","a","r","e","s">>) >>) }

InitConcurrent == ServerInit(1..NumRequests)

NextConcurrent ==
  \/ \E r \in Requests, m \in ConcMessages : Execute(r, m)
  \/ \E r \in Requests, t \in ModelTexts : ModelReturns(r, t)
  \/ \E r \in Requests, e \in Failures : ModelFails(r, e)
  \/ \E r \in Requests : Publish(r)
  \/ \E r \in Requests : Cancel(r)

SpecConcurrent == InitConcurrent /\ [][NextConcurrent]_vars

RECURSIVE SumCalls(_)
SumCalls(rs) ==
  IF rs = {} THEN 0
  ELSE LET r == CHOOSE x \in rs : TRUE
       IN  Len(calls[r]) + SumCalls(rs \ {r})

\* C4: a request past the facade has made exactly one model call when a
\* client is configured and none otherwise; no request ever makes a second
\* call, so the calls made never exceed the requests started.
C4_OneCallPerRequest ==
  /\ \A r \in Requests :
       /\ Len(calls[r]) <= 1
       /\ pc[r] = "idle" => Len(calls[r]) = 0
       /\ pc[r] # "idle" =>
            Len(calls[r]) = (IF client # NoClient THEN 1 ELSE 0)
  /\ SumCalls(Requests) <= Cardinality({ r \in Requests : pc[r] # "idle" })

\* C4 witness: a request whose call failed has finished with one call made,
\* beside another finished request with one call.
C4_Witness ==
  \E r, q \in Requests :
    /\ r # q
    /\ pc[r] = "done" /\ pc[q] = "done"
    /\ outcome[r].kind = "failed" /\ outcome[q].kind = "returned"
    /\ Len(calls[r]) = 1 /\ Len(calls[q]) = 1

\* C5: every invocation of cancel ends by raising, whatever the state of
\* the request it names.
C5_CancelAlwaysRaises ==
  cancelled # NoCancel => cancelled.signal = "raised"

\* C5 witness: cancel was invoked on a finished request and raised.
C5_Witness ==
  /\ cancelled.at = "done"
  /\ cancelled.signal = "raised"

\* the answer a request's own message and own call determine
OwnResponse(r) ==
  IF client = NoClient THEN Str(GetBasicResponse(ExtractQuery(message[r])))
  ELSE IF outcome[r].kind = "failed"
    THEN Str(ErrorPrefix \o outcome[r].msg \o CredentialHint)
  ELSE result[r]

C8_EventsAreOwn ==
  \A r \in Requests :
    /\ \A i \in 1..Len(events[r]) : events[r][i] = OwnResponse(r)
    /\ \A i \in 1..Len(calls[r]) : calls[r][i] = BuildPrompt(ExtractQuery(message[r]))

\* C8: no step of any execute or cancel changes the agent's credential or
\* client, and every published event carries the answer determined by its
\* own request's message (and own model call), however the requests
\* interleave.
C8_NoSharedMutableState ==
  /\ [](C8_EventsAreOwn)
  /\ [][api_key' = api_key /\ client' = client]_vars

\* C8 witness: two finished requests of an unconfigured agent, each with
\* the template of its own message.
C8_Witness ==
  \E r, q \in Requests :
    /\ client = NoClient
    /\ pc[r] = "done" /\ pc[q] = "done"
    /\ message[r] = Message(<< TextPart(<<"R","i","s","k">>) >>)
    /\ message[q] = NoMessage
    /\ events[r] = << Str(RiskTemplate) >>
    /\ events[q] = << Str(WelcomeTemplate) >>

(***************************************************************************)
(* The process entry point: __main__.main (SpecMain).                      *)
(***************************************************************************)
DigitChars == <<"0","1","2","3","4","5","6","7","8","9">>

IsDigit(c) == \E i \in 1..10 : DigitChars[i] = c

DigitValue(c) == (CHOOSE i \in 1..10 : DigitChars[i] = c) - 1

\* whether int(s) succeeds, for the texts considered here: digit strings
\* and words
IntValid(s) == Len(s) > 0 /\ \A i \in 1..Len(s) : IsDigit(s[i])

\* int(s) of a digit string
RECURSIVE ParseInt(_)
ParseInt(s) ==
  IF s = <<>> THEN 0
  ELSE 10 * ParseInt(SubSeq(s, 1, Len(s) - 1)) + DigitValue(s[Len(s)])

\* os.getenv(name, default)
Getenv(v, default) == IF v.some THEN v.val ELSE default

DefaultHost == "0.0.0.0"

DefaultPortText == <<"8","0","0","0">>

\* f'http://localhost:{port}/'
DefaultServerUrl(p) == "http://localhost:" \o ToString(p) \o "/"

\* the url parameter's default in create_agent_card
DefaultCardUrl == "http://localhost:8000/"

\* the per-request state of a server that handles no request
ServerOff ==
  /\ api_key = None
  /\ client = NoClient
  /\ pc = <<>>
  /\ message = <<>>
  /\ user_query = <<>>
  /\ calls = <<>>
  /\ outcome = <<>>
  /\ result = <<>>
  /\ events = <<>>
  /\ cancelled = NoCancel

Environs ==
  [ HOST : { None, Str(""), Str("127.0.0.1"), Str("example.org") },
    PORT : { NoText, [some |-> TRUE, val |-> <<"8","0","0","0">>],
             [some |-> TRUE, val |-> <<"9","0","9","0">>], [some |-> TRUE, val |-> <<"0","8","0">>],
             [some |-> TRUE, val |-> <<"h","t","t","p">>] },
    SERVER_URL : { None, Str(""), Str("https://agents.example/") },
    GOOGLE_API_KEY : ApiKeys ]

\* main, lines 99-102: the configuration read from the environment;
\* int() of a PORT that is no number raises and main ends there
MainReadConfig ==
  /\ mpc = "start"
  /\ LET portText == Getenv(environ.PORT, DefaultPortText)
     IN  IF IntValid(portText)
         THEN /\ host' = Getenv(environ.HOST, DefaultHost)
              /\ port' = ParseInt(portText)
              /\ server_url' = Getenv(environ.SERVER_URL, DefaultServerUrl(ParseInt(portText)))
              /\ mpc' = "configured"
         ELSE /\ host' = Getenv(environ.HOST, DefaultHost)
              /\ mpc' = "crashed"
              /\ UNCHANGED <<port, server_url>>
  /\ UNCHANGED <<environ, card_url, bound, serverVars, clientVars>>

\* the card built with create_agent_card's own default url
MainCreateCardDefaultUrl ==
  /\ mpc = "configured"
  /\ card_url' = DefaultCardUrl
  /\ mpc' = "card"
  /\ UNCHANGED <<environ, host, port, server_url, bound, serverVars, clientVars>>

\* main, line 105: agent_card = create_agent_card(url=server_url)
MainCreateCard ==
  /\ mpc = "configured"
  /\ card_url' = server_url
  /\ mpc' = "card"
  /\ UNCHANGED <<environ, host, port, server_url, bound, serverVars, clientVars>>

\* main, line 108: InvestmentAgentExecutor(api_key=google_api_key)
MainCreateExecutor ==
  /\ mpc = "card"
  /\ \E genai \in BOOLEAN :
       /\ api_key' = AgentApiKey(environ.GOOGLE_API_KEY, environ.GOOGLE_API_KEY)
       /\ client' = AgentClient(environ.GOOGLE_API_KEY, environ.GOOGLE_API_KEY, genai)
  /\ mpc' = "executor"
  /\ UNCHANGED <<pc, message, user_query, calls, outcome, result, events, cancelled>>
  /\ UNCHANGED <<environ, host, port, server_url, card_url, bound, clientVars>>

\* main, line 131: uvicorn.run(server.build(), host=host, port=port)
MainServe ==
  /\ mpc = "executor"
  /\ bound' = <<host, port>>
  /\ mpc' = "serving"
  /\ UNCHANGED <<environ, host, port, server_url, card_url, serverVars, clientVars>>

InitMain ==
  /\ ServerOff
  /\ ClientIdle
  /\ environ \in Environs
  /\ mpc = "start"
  /\ host = ""
  /\ port = 0
  /\ server_url = ""
  /\ card_url = ""
  /\ bound = <<"", 0>>

NextMain ==
  \/ MainReadConfig
  \/ MainCreateCard
  \/ MainCreateExecutor
  \/ MainServe

SpecMain == InitMain /\ [][NextMain]_vars

ConfigRead == mpc \in {"configured", "card", "executor", "serving"}

CardBuilt == mpc \in {"card", "executor", "serving"}

\* C10 as stated: the advertised URL is SERVER_URL when set, and otherwise
\* is made of the configured host and port; the card carries that URL.
C10_DefaultFromHostAndPort ==
  /\ ConfigRead =>
       server_url = (IF environ.SERVER_URL.some THEN environ.SERVER_URL.val
                     ELSE "http://" \o host \o ":" \o ToString(port) \o "/")
  /\ CardBuilt => card_url = server_url

\* C10 amended: the advertised URL is SERVER_URL when set, and otherwise
\* http://localhost:<port>/ with the configured port alone (PORT, default
\* 8000); HOST (default 0.0.0.0) is the bind address only; the card carries
\* that URL.
C10_DefaultFromPortOnly ==
  /\ ConfigRead =>
       /\ ~environ.HOST.some => host = "0.0.0.0"
       /\ environ.HOST.some => host = environ.HOST.val
       /\ ~environ.PORT.some => port = 8000
       /\ environ.PORT.some => port = ParseInt(environ.PORT.val)
       /\ environ.SERVER_URL.some => server_url = environ.SERVER_URL.val
       /\ ~environ.SERVER_URL.some =>
            server_url = "http://localhost:" \o ToString(port) \o "/"
  /\ CardBuilt => card_url = server_url
  /\ mpc = "serving" => bound = <<host, port>>

\* C10 witness: with SERVER_URL unset, HOST example.org and PORT 080 the
\* server runs advertising http://localhost:80/.
C10_Witness ==
  /\ mpc = "serving"
  /\ ~environ.SERVER_URL.some
  /\ environ.HOST = Str("example.org")
  /\ environ.PORT.val = <<"0","8","0">>
  /\ card_url = "http://localhost:80/"
  /\ bound = <<"example.org", 80>>

(***************************************************************************)
(* The manual test client: test_client.py (SpecClient).                    *)
(***************************************************************************)
QuitWords == { <<"q","u","i","t">>, <<"e","x","i","t">>, <<"q">> }

\* what --query can be: absent, empty, or a question
ArgQueries == { NoText, [some |-> TRUE, val |-> <<>>], [some |-> TRUE, val |-> <<"r","i","s","k","?">>] }

\* what the operator can type at the prompt
InputLines ==
  { <<"q","u","i","t">>, <<"E","X","I","T">>, <<" ","q"," ">>, <<>>, <<" "," ">>, <<"r","i","s","k","?">>, <<"q","u","i","t"," ","n","o","w">> }

\* what a query can raise: httpx.ConnectError, or another Exception
QueryFailures == { "ConnectError", "Exception" }

\* main of the client: `if args.query:` chooses one-shot or interactive
ClientMain ==
  /\ cpc = "start"
  /\ IF argv_query.some /\ argv_query.val # <<>>
     THEN /\ interactive' = FALSE
          /\ sent' = Append(sent, argv_query.val)
          /\ cpc' = "querying"
     ELSE /\ interactive' = TRUE
          /\ cpc' = "prompt"
          /\ UNCHANGED sent
  /\ UNCHANGED <<argv_query, lines, failure, ended_by, exit_status, serverVars, mainVars>>

\* run_interactive_mode: input() returns a line
ReadLine(line) ==
  /\ cpc = "prompt"
  /\ Len(lines) < MaxLines
  /\ lines' = Append(lines, line)
  /\ LET query == Strip(line)
     IN  IF Lower(query) \in QuitWords
         THEN /\ ended_by' = "quit"
              /\ cpc' = "exited"
              /\ exit_status' = 0
              /\ UNCHANGED sent
         ELSE IF query = <<>>
         THEN UNCHANGED <<ended_by, cpc, exit_status, sent>>
         ELSE /\ sent' = Append(sent, query)
              /\ cpc' = "querying"
              /\ UNCHANGED <<ended_by, exit_status>>
  /\ UNCHANGED <<argv_query, interactive, failure, serverVars, mainVars>>

\* run_interactive_mode: input() raises EOFError
ReadEOF ==
  /\ cpc = "prompt"
  /\ ended_by' = "eof"
  /\ cpc' = "exited"
  /\ exit_status' = 0
  /\ UNCHANGED <<argv_query, interactive, lines, sent, failure, serverVars, mainVars>>

\* run_interactive_mode: input() raises KeyboardInterrupt and the loop's
\* handler ends the loop.  (An interrupt while a query is awaited is
\* raised in the event loop, outside this code, and is not modelled.)
Interrupted ==
  /\ cpc = "prompt"
  /\ ended_by' = "interrupt"
  /\ cpc' = "exited"
  /\ exit_status' = 0
  /\ UNCHANGED <<argv_query, interactive, lines, sent, failure, serverVars, mainVars>>

\* test_investment_agent returns normally
QuerySucceeds ==
  /\ cpc = "querying"
  /\ IF interactive
     THEN /\ cpc' = "prompt"
          /\ UNCHANGED exit_status
     ELSE /\ cpc' = "exited"
          /\ exit_status' = 0
  /\ UNCHANGED <<argv_query, interactive, lines, sent, failure, ended_by, serverVars, mainVars>>

\* a failed query is reported and the interactive loop goes on
QueryFailsKeepsLooping(e) ==
  /\ cpc = "querying"
  /\ failure' = e
  /\ IF interactive
     THEN /\ cpc' = "prompt"
          /\ UNCHANGED exit_status
     ELSE /\ cpc' = "exited"
          /\ exit_status' = 1
  /\ UNCHANGED <<argv_query, interactive, lines, sent, ended_by, serverVars, mainVars>>

\* test_investment_agent: both except clauses end in sys.exit(1); the
\* SystemExit passes the loop's handlers
QueryFails(e) ==
  /\ cpc = "querying"
  /\ failure' = e
  /\ cpc' = "exited"
  /\ exit_status' = 1
  /\ UNCHANGED <<argv_query, interactive, lines, sent, ended_by, serverVars, mainVars>>

InitClient ==
  /\ ServerOff
  /\ MainIdle
  /\ argv_query \in ArgQueries
  /\ cpc = "start"
  /\ interactive = FALSE
  /\ lines = <<>>
  /\ sent = <<>>
  /\ failure = "none"
  /\ ended_by = "none"
  /\ exit_status = -1

NextClient ==
  \/ ClientMain
  \/ \E line \in InputLines : ReadLine(line)
  \/ ReadEOF
  \/ Interrupted
  \/ QuerySucceeds
  \/ \E e \in QueryFailures : QueryFails(e)

SpecClient == InitClient /\ [][NextClient]_vars

\* the line, trimmed and lower-cased, is quit, exit or q
IsQuitLine(line) == Lower(Strip(line)) \in { <<"q","u","i","t">>, <<"e","x","i","t">>, <<"q">> }

\* a failed query ends the client with status 1, in either mode, and
\* nothing else gives status 1
C9_FailureExitsOne ==
  /\ failure # "none" => (cpc = "exited" /\ exit_status = 1)
  /\ exit_status = 1 => failure # "none"
  /\ exit_status \in {-1, 0, 1}

\* only the last line read can be a quit line, and reading it ends the loop
C9_QuitLineEnds ==
  \A i \in 1..Len(lines) :
    IsQuitLine(lines[i]) <=> (i = Len(lines) /\ ended_by = "quit")

====
